---- MODULE Spec2Model ----
(***************************************************************************)
(* A model of the story-feed publishing scripts (scripts/make_post.py and  *)
(* its older variants): the RSS feed store, the image acquirer with its    *)
(* retry loop, the response normalizer and the main() orchestration.       *)
(***************************************************************************)
EXTENDS Integers, Sequences, FiniteSets, TLC

VARIABLES
    feed,        \* docs/feed.xml: the persisted feed document
    now,         \* the wall clock (utcnow), in seconds
    max_posts,   \* the environment's MAX_FEED_POSTS, read by append_rss_item
    log,         \* history: every item append_rss_item has persisted
    calls,       \* history: number of append_rss_item calls made
    last,        \* history: outcome of the latest feed operation
    norm,        \* get_story_and_prompt: position, answers received, result
    gi,          \* generate_image: position, loop variable, result, history
    run,         \* main(): position, locals, and the feed as the run found it
    files,       \* the files written under docs/posts and docs/images
    slugs,       \* history: the slug of every run of main() that made one
    sl,          \* slugify: the title it was called with and its result
    sv           \* make_svg: the text it was called with and its excerpt

feedVars == <<feed, now, max_posts, log, calls, last, run, files, slugs, sl, sv>>

vars == <<feed, now, max_posts, log, calls, last, norm, gi, run, files, slugs, sl, sv>>

\* ------------------------------------------------------------------ bounds
MaxCap == 2
MaxAppends == 4
MaxClock == 2
\* the longest title slugify is called with, the fixed titles apart
MaxTitleLen == 3
\* seconds in a day of the model's clock
DayLen == 2

\* ----------------------------------------------------------------- helpers
Min(a, b) == IF a < b THEN a ELSE b
Max(a, b) == IF a > b THEN a ELSE b

\* Python's s[:stop] for a sequence of length n: the number of leading
\* elements selected (a negative stop counts from the end, -0 is 0).
PySliceStop(n, stop) == IF stop < 0 THEN Max(n + stop, 0) ELSE Min(stop, n)

\* The last Min(k, Len(s)) elements of s.
LastN(s, k) == SubSeq(s, Len(s) - Min(k, Len(s)) + 1, Len(s))

\* ---------------------------------------------------------------- the feed
NoFile == [exists |-> FALSE, channel |-> FALSE, lbd |-> <<>>, items |-> <<>>]

\* ensure_feed's document: one channel, a lastBuildDate, no items.
NewFeed(t) == [exists |-> TRUE, channel |-> TRUE, lbd |-> <<t>>, items |-> <<>>]

\* A stored document with no <channel> element under its root.
NoChannelFeed == [exists |-> TRUE, channel |-> FALSE, lbd |-> <<>>, items |-> <<>>]

\* A slip: the document is written whether or not one exists.
ensure_feed_overwriting(f, t) == NewFeed(t)

ensure_feed(f, t) == IF f.exists THEN f ELSE NewFeed(t)

\* The literal text around the story in an item's description.
CdataOpen == <<"<", "!", "[", "C", "D", "A", "T", "A", "[">>
CdataClose == <<"]", "]", ">">>

\* The <item> element append_rss_item builds.  The description's text is
\* CdataOpen, the story, an <img> of img_abs_url in a <p>, CdataClose.
MakeItem(title, post_url, story_html, img_abs_url, img_mime, t) ==
    [title |-> title, link |-> post_url, guid |-> post_url, pubDate |-> t,
     description |-> [open |-> CdataOpen, story_html |-> story_html,
                      img |-> img_abs_url, close |-> CdataClose],
     enclosure |-> [url |-> img_abs_url, type |-> img_mime]]

\* ---- the document on disk: ET.tostring writes it, ET.fromstring reads it
\* Element text is written with &, < and > replaced by entity references.
XmlEscapeChar(c) ==
    CASE c = "&" -> <<"&", "a", "m", "p", ";">>
      [] c = "<" -> <<"&", "l", "t", ";">>
      [] c = ">" -> <<"&", "g", "t", ";">>
      [] OTHER -> <<c>>
RECURSIVE XmlEscapeSeq(_)
XmlEscapeSeq(s) ==
    IF s = <<>> THEN <<>> ELSE XmlEscapeChar(Head(s)) \o XmlEscapeSeq(Tail(s))

\* The character an entity reference stands for.
XmlEntity(name) ==
    CASE name = <<"a", "m", "p">> -> <<"&">>
      [] name = <<"l", "t">> -> <<"<">>
      [] name = <<"g", "t">> -> <<">">>
      [] OTHER -> <<"&">> \o name \o <<";">>

\* A plausible slip: the reader leaves entity references as they are.
XmlKeepEntities(s) == s

\* The reader replaces every entity reference by its character and every
\* line break (\r\n or \r) by \n.
RECURSIVE XmlUnescapeSeq(_)
XmlUnescapeSeq(s) ==
    IF s = <<>> THEN <<>>
    ELSE IF Head(s) = "&" /\ \E i \in 2..Len(s) : s[i] = ";"
    THEN LET semi == CHOOSE i \in 2..Len(s) :
                       s[i] = ";" /\ \A j \in 2..(i - 1) : s[j] # ";"
         IN XmlEntity(SubSeq(s, 2, semi - 1))
              \o XmlUnescapeSeq(SubSeq(s, semi + 1, Len(s)))
    ELSE IF Head(s) = "\r"
    THEN <<"\n">> \o XmlUnescapeSeq(IF Len(s) >= 2 /\ s[2] = "\n"
                                     THEN Tail(Tail(s)) ELSE Tail(s))
    ELSE <<Head(s)>> \o XmlUnescapeSeq(Tail(s))

\* The text of an element, as written and as read back.
XmlWriteText(v) ==
    IF v.k = "str" /\ v.txt.form = "chars"
    THEN [v EXCEPT !.txt.s = XmlEscapeSeq(v.txt.s)] ELSE v
XmlReadText(v) ==
    IF v.k = "str" /\ v.txt.form = "chars"
    THEN [v EXCEPT !.txt.s = XmlUnescapeSeq(v.txt.s)] ELSE v

XmlWriteItem(it) ==
    [it EXCEPT !.title = XmlWriteText(it.title),
               !.link.slug = XmlEscapeSeq(it.link.slug),
               !.guid.slug = XmlEscapeSeq(it.guid.slug),
               !.description.open = XmlEscapeSeq(it.description.open),
               !.description.story_html = XmlWriteText(it.description.story_html),
               !.description.close = XmlEscapeSeq(it.description.close)]
XmlReadItem(it) ==
    [it EXCEPT !.title = XmlReadText(it.title),
               !.link.slug = XmlUnescapeSeq(it.link.slug),
               !.guid.slug = XmlUnescapeSeq(it.guid.slug),
               !.description.open = XmlUnescapeSeq(it.description.open),
               !.description.story_html = XmlReadText(it.description.story_html),
               !.description.close = XmlUnescapeSeq(it.description.close)]

\* FEED.write_bytes(ET.tostring(root)): the items of the file written, and
\* ET.fromstring(FEED.read_text()): the items a reader of that file finds.
XmlWrite(items) == [i \in 1..Len(items) |-> XmlWriteItem(items[i])]
XmlRead(items) == [i \in 1..Len(items) |-> XmlReadItem(items[i])]

\* An item as a reader finds it once it has been written.
Stored(it) == XmlReadItem(XmlWriteItem(it))

\* A plausible slip: the newest items are evicted instead of the oldest.
TrimItemsKeepOldest(items, n) ==
    IF Len(items) > n THEN SubSeq(items, 1, Min(Max(n, 0), Len(items))) ELSE items

\* "Trim to most recent N posts": remove every element of items[:-MAX_POSTS].
TrimItems(items, n) ==
    IF Len(items) > n
    THEN SubSeq(items, PySliceStop(Len(items), -n) + 1, Len(items))
    ELSE items

\* A slip: lastBuildDate is set only when the channel has none.
append_rss_item_stale(f, it, n, t) ==
    IF ~f.exists THEN [raised |-> "FileNotFoundError", doc |-> f]
    ELSE IF ~f.channel THEN [raised |-> "RuntimeError", doc |-> f]
    ELSE [raised |-> "none",
          doc |-> [f EXCEPT !.lbd = IF f.lbd = <<>> THEN <<t>> ELSE f.lbd,
                            !.items = XmlRead(XmlWrite(TrimItems(Append(f.items, it), n)))]]

\* append_rss_item on a stored document f at time t: the document it persists
\* (as a reader of the file finds it), or the exception it raises before
\* persisting anything.
append_rss_item(f, it, n, t) ==
    IF ~f.exists THEN [raised |-> "FileNotFoundError", doc |-> f]
    ELSE IF ~f.channel THEN [raised |-> "RuntimeError", doc |-> f]
    ELSE [raised |-> "none",
          doc |-> [f EXCEPT !.lbd = IF f.lbd = <<>> THEN <<t>> ELSE [f.lbd EXCEPT ![1] = t],
                            !.items = XmlRead(XmlWrite(TrimItems(Append(f.items, it), n)))]]

\* ---- the earlier scripts, which keep the same docs/feed.xml
\* Their <item> has no <enclosure>.
MakeItemOld(title, post_url, story_html, img_abs_url, t) ==
    [title |-> title, link |-> post_url, guid |-> post_url, pubDate |-> t,
     description |-> [open |-> CdataOpen, story_html |-> story_html,
                      img |-> img_abs_url, close |-> CdataClose]]

\* make_postold.py: `chan.find("lastBuildDate") or ET.SubElement(...)`.  An
\* Element with no children is false, so the element found is passed over
\* and a new lastBuildDate is added to the channel, after the others.  No
\* item is removed.
append_rss_item_old(f, it, t) ==
    IF ~f.exists THEN [raised |-> "FileNotFoundError", doc |-> f]
    ELSE IF ~f.channel THEN [raised |-> "RuntimeError", doc |-> f]
    ELSE [raised |-> "none",
          doc |-> [f EXCEPT !.lbd = Append(f.lbd, t),
                            !.items = XmlRead(XmlWrite(Append(f.items, it)))]]

\* make_posts.py: `if lbd is None`, as in make_post.py.  No item is removed.
append_rss_item_posts(f, it, t) ==
    IF ~f.exists THEN [raised |-> "FileNotFoundError", doc |-> f]
    ELSE IF ~f.channel THEN [raised |-> "RuntimeError", doc |-> f]
    ELSE [raised |-> "none",
          doc |-> [f EXCEPT !.lbd = IF f.lbd = <<>> THEN <<t>> ELSE [f.lbd EXCEPT ![1] = t],
                            !.items = XmlRead(XmlWrite(Append(f.items, it)))]]

\* ensure_feed of make_postold.py and of make_posts.py
ensure_feed_old(f, t) == IF f.exists THEN f ELSE NewFeed(t)
ensure_feed_posts(f, t) == IF f.exists THEN f ELSE NewFeed(t)

\* ------------------------------------------------- JSON values (json module)
\* Every decoded JSON value is a tagged record.  A string is given either by
\* its characters or as the JSON serialisation of a value.
Null == [k |-> "null"]
Num(n) == [k |-> "num", n |-> n]
Dict(m) == [k |-> "dict", m |-> m]
List(e) == [k |-> "list", e |-> e]
Str(txt) == [k |-> "str", txt |-> txt]
\* A string given by its characters (prose: never itself a JSON document).
Chars(s) == Str([form |-> "chars", s |-> s])
\* A string that is the JSON serialisation of v, padded with whitespace or not.
JsonStr(v, pad) == Str([form |-> "json", of |-> v, pad |-> pad])
EmptyStr == Chars(<<>>)
EmptyDict == Dict(<<>>)
EmptyList == List(<<>>)

\* Python truthiness: `x or default`, `if x:`.
Truthy(v) ==
    CASE v.k = "null" -> FALSE
      [] v.k = "num" -> v.n # 0
      [] v.k = "str" -> ~(v.txt.form = "chars" /\ v.txt.s = <<>>)
      [] v.k = "dict" -> DOMAIN v.m # {}
      [] v.k = "list" -> v.e # <<>>

Or(v, d) == IF Truthy(v) THEN v ELSE d

\* dict.get(key): None when the key is absent.
Get(d, key) == IF key \in DOMAIN d.m THEN d.m[key] ELSE Null

\* str.strip() on a character sequence
Whitespace == {" ", "\t", "\n"}
RECURSIVE LStripSeq(_)
LStripSeq(s) == IF s # <<>> /\ Head(s) \in Whitespace THEN LStripSeq(Tail(s)) ELSE s
RECURSIVE RStripSeq(_)
RStripSeq(s) ==
    IF s # <<>> /\ s[Len(s)] \in Whitespace THEN RStripSeq(SubSeq(s, 1, Len(s) - 1)) ELSE s
StripSeq(s) == RStripSeq(LStripSeq(s))

\* str.strip()
Strip(v) ==
    IF v.txt.form = "json" THEN JsonStr(v.txt.of, FALSE) ELSE Chars(StripSeq(v.txt.s))

Ok(v) == [st |-> "ok", v |-> v]
None == [st |-> "none"]
Raise(exc) == [st |-> "raise", exc |-> exc]

\* json.loads(txt) for a str txt
json_loads(v) ==
    IF v.txt.form = "json" THEN Ok(v.txt.of) ELSE Raise("JSONDecodeError")

\* ---------------------------------------------- get_story_and_prompt helpers
RequiredKeys == {"title", "story_html", "image_prompt"}
MessageType == <<"m", "e", "s", "s", "a", "g", "e">>
DefaultTitle ==
    Chars(<<"A", "u", "t", "o", "m", "a", "t", "e", "d", " ", "S", "t", "o", "r", "y">>)

\* A slip: the emptiness test of story_html / image_prompt is left out.
try_parse_obj_unchecked(obj) ==
    IF obj.k # "dict" THEN None
    ELSE IF RequiredKeys \subseteq DOMAIN obj.m
    THEN LET t == Or(Get(obj, "title"), DefaultTitle)
         IN IF t.k # "str" THEN Raise("AttributeError")
            ELSE Ok([title |-> Strip(t),
                     story_html |-> Or(Get(obj, "story_html"), EmptyStr),
                     image_prompt |-> Or(Get(obj, "image_prompt"), EmptyStr)])
    ELSE None

\* try_parse_obj: (title, story_html, image_prompt) or None
try_parse_obj(obj) ==
    IF obj.k # "dict" THEN None
    ELSE IF RequiredKeys \subseteq DOMAIN obj.m
    THEN LET t == Or(Get(obj, "title"), DefaultTitle)
             story_html == Or(Get(obj, "story_html"), EmptyStr)
             image_prompt == Or(Get(obj, "image_prompt"), EmptyStr)
         IN IF t.k # "str" THEN Raise("AttributeError")
            ELSE IF Truthy(story_html) /\ Truthy(image_prompt)
            THEN Ok([title |-> Strip(t), story_html |-> story_html,
                     image_prompt |-> image_prompt])
            ELSE None
    ELSE None

\* (seg.get("text") or "").strip()
SegText(seg) ==
    IF seg.k # "dict" THEN Raise("AttributeError")
    ELSE LET x == Or(Get(seg, "text"), EmptyStr)
         IN IF x.k # "str" THEN Raise("AttributeError") ELSE Ok(Strip(x))

\* try: obj = json.loads(txt); got = try_parse_obj(obj) ... except: pass
\* followed by try_parse_obj(txt), which is None for a str.
ParseText(txt) ==
    LET o == json_loads(txt)
        got == IF o.st = "ok" THEN try_parse_obj(o.v) ELSE None
    IN IF got.st = "ok" THEN got ELSE None

\* seq[0] of a truthy value
First(v) ==
    IF v.k = "list" THEN Ok(v.e[1])
    ELSE IF v.k = "str" THEN Ok(v)
    ELSE IF v.k = "dict" THEN Raise("KeyError")
    ELSE Raise("TypeError")

\* 2) content list -> first segment text
MatchContent(data) ==
    LET content == Get(data, "content")
    IN IF content.k = "list" /\ Truthy(content)
       THEN LET t == SegText(content.e[1])
            IN IF t.st = "raise" THEN t
               ELSE IF Truthy(t.v) THEN ParseText(t.v) ELSE None
       ELSE None

\* A slip: the type of the output item is not looked at.
MatchItemAnyType(item) ==
    IF item.k # "dict" THEN Raise("AttributeError")
    ELSE LET segs == Or(Get(item, "content"), EmptyList)
         IN IF Truthy(segs)
            THEN LET f == First(segs)
                     t == IF f.st = "ok" THEN SegText(f.v) ELSE f
                 IN IF t.st = "raise" THEN t
                    ELSE IF Truthy(t.v) THEN ParseText(t.v) ELSE None
            ELSE None

\* the body of the loop of 3) for one output item
MatchItem(item) ==
    IF item.k # "dict" THEN Raise("AttributeError")
    ELSE IF Get(item, "type") = Chars(MessageType)
    THEN LET segs == Or(Get(item, "content"), EmptyList)
         IN IF Truthy(segs)
            THEN LET f == First(segs)
                     t == IF f.st = "ok" THEN SegText(f.v) ELSE f
                 IN IF t.st = "raise" THEN t
                    ELSE IF Truthy(t.v) THEN ParseText(t.v) ELSE None
            ELSE None
    ELSE None

\* 3) output list -> find a message -> its content[0].text
RECURSIVE MatchOutputList(_, _)
MatchOutputList(items, i) ==
    IF i > Len(items) THEN None
    ELSE LET r == MatchItem(items[i])
         IN IF r.st = "none" THEN MatchOutputList(items, i + 1) ELSE r

\* 4) output dict variant
MatchOutputDict(out) ==
    LET got == try_parse_obj(out)
    IN IF got.st # "none" THEN got
       ELSE LET segs == Or(Get(out, "content"), EmptyList)
            IN IF segs.k = "list" /\ Truthy(segs)
               THEN LET t == SegText(segs.e[1])
                    IN IF t.st = "raise" THEN t
                       ELSE IF Truthy(t.v) THEN ParseText(t.v) ELSE None
               ELSE None

\* extract_from_responses_json: the triple, None, or the exception that
\* leaves the function.
extract_from_responses_json(data) ==
    LET top == try_parse_obj(data)
    IN IF top.st # "none" THEN top
       ELSE IF data.k # "dict" THEN Raise("AttributeError")
       ELSE LET c == MatchContent(data)
            IN IF c.st # "none" THEN c
               ELSE LET out == Get(data, "output")
                    IN IF out.k = "list" THEN MatchOutputList(out.e, 1)
                       ELSE IF out.k = "dict" THEN MatchOutputDict(out)
                       ELSE None

\* ------------------------------------------------------ HTTP responses
\* A response body that is not JSON: r.json() raises.
InvalidBody == [k |-> "invalid"]
\* requests.post raised (timeout, connection error) instead of answering.
TransportError == [kind |-> "exc", status |-> 0, body |-> InvalidBody]
Http(status, body) == [kind |-> "http", status |-> status, body |-> body]

\* v[key] of a dict, v[0] of a list
Sub(v, key) ==
    IF v.k # "dict" THEN Raise("TypeError")
    ELSE IF key \in DOMAIN v.m THEN Ok(v.m[key]) ELSE Raise("KeyError")
Idx0(v) ==
    IF v.k = "list" THEN (IF v.e = <<>> THEN Raise("IndexError") ELSE Ok(v.e[1]))
    ELSE IF v.k = "dict" THEN Raise("KeyError")
    ELSE Raise("TypeError")

\* The "Try Responses API" block: the triple it returns, or anything else
\* (None: unparsed shape, warning printed; raise: caught and logged), after
\* which control falls through to the fallback.
get_story_primary(resp) ==
    IF resp.kind = "exc" THEN Raise("RequestException")
    ELSE IF resp.status # 200 THEN Raise("RuntimeError")
    ELSE IF resp.body = InvalidBody THEN Raise("JSONDecodeError")
    ELSE extract_from_responses_json(resp.body)

\* r.json()["choices"][0]["message"]["content"]
ChatContent(body) ==
    LET a == Sub(body, "choices")
        b == IF a.st = "ok" THEN Idx0(a.v) ELSE a
        c == IF b.st = "ok" THEN Sub(b.v, "message") ELSE b
    IN IF c.st = "ok" THEN Sub(c.v, "content") ELSE c

\* The try block of "Fallback: Chat Completions": the triple it returns, or
\* the exception raised inside it.
chat_fallback_try(resp) ==
    IF resp.kind = "exc" THEN Raise("RequestException")
    ELSE IF resp.status # 200 THEN Raise("Chat API status")
    ELSE IF resp.body = InvalidBody THEN Raise("JSONDecodeError")
    ELSE LET c == ChatContent(resp.body)
         IN IF c.st # "ok" THEN c
            ELSE IF c.v.k # "str" THEN Raise("AttributeError")
            ELSE LET o == json_loads(Strip(c.v))
                     got == IF o.st = "ok" THEN try_parse_obj(o.v) ELSE o
                 IN IF got.st = "none"
                    THEN Raise("Chat fallback returned invalid JSON object.")
                    ELSE got

\* The "Fallback: Chat Completions" block: the triple it returns, or the
\* RuntimeError every failure is re-raised as.
get_story_fallback(resp) ==
    LET r == chat_fallback_try(resp)
    IN IF r.st = "ok" THEN r ELSE Raise("RuntimeError")

\* ---- what is printed and what the error says
\* text[:800]: the leading characters of the text of v, at most `cut` of them.
SnippetLimit == 800
Snippet(v) == [of |-> v, cut |-> SnippetLimit]
NoSnippet == [of |-> InvalidBody, cut |-> 0]
Message(text, cause, snippet) == [text |-> text, cause |-> cause, snippet |-> snippet]
NoMessage == Message("", "", NoSnippet)

\* The warning line the "Try Responses API" block prints, if any.
primary_warning(resp) ==
    LET r == get_story_primary(resp)
    IN IF r.st = "ok" THEN NoMessage
       ELSE IF r.st = "none"
       THEN Message("::warning::Unparsed Responses API shape:", "", Snippet(resp.body))
       ELSE IF resp.kind = "http" /\ resp.status # 200
       THEN Message("::warning::Responses API failed:", "Responses API status",
                    Snippet(resp.body))
       ELSE Message("::warning::Responses API failed:", r.exc, NoSnippet)

\* A slip: the error raised after the fallback quotes the fallback's answer.
fallback_error_quoting(resp) ==
    Message("Failed to get story JSON after fallback:", "", Snippet(resp.body))

\* The message of the RuntimeError raised when the fallback fails: the fixed
\* prefix and str(e) of the exception caught; only the error for a non-200
\* status quotes the answer (r.text[:800]).
fallback_error(resp) ==
    LET r == chat_fallback_try(resp)
    IN IF r.st = "ok" THEN NoMessage
       ELSE Message("Failed to get story JSON after fallback:", r.exc,
                    IF r.exc = "Chat API status" THEN Snippet(resp.body) ELSE NoSnippet)

\* get_story_and_prompt as a function of the two answers it may receive.
get_story_and_prompt(primary, fallback) ==
    LET p == get_story_primary(primary)
    IN IF p.st = "ok" THEN p ELSE get_story_fallback(fallback)

\* ------------------------------------------------------- payloads checked
TitleT == <<"A", "!">>
StoryT == <<"<", "p", ">">>
PromptT == <<"f", "o", "g">>
Obj(title, story, prompt) ==
    Dict([title |-> title, story_html |-> story, image_prompt |-> prompt])
\* The triple T with all three fields non-empty, and the record it denotes.
TripleObj == Obj(Chars(TitleT), Chars(StoryT), Chars(PromptT))
TripleT == [title |-> Chars(TitleT), story_html |-> Chars(StoryT),
            image_prompt |-> Chars(PromptT)]
\* An object of the same shape whose title is another one.
OtherObj == Obj(Chars(<<"b", " ", "c">>), Chars(StoryT), Chars(PromptT))
EmptyStoryObj == Obj(Chars(TitleT), EmptyStr, Chars(PromptT))
NullPromptObj == Obj(Chars(TitleT), Chars(StoryT), Null)
\* Objects with a story and a prompt whose title is absent, null, empty or blank.
NoTitleObj == Dict([story_html |-> Chars(StoryT), image_prompt |-> Chars(PromptT)])
NullTitleObj == Obj(Null, Chars(StoryT), Chars(PromptT))
EmptyTitleObj == Obj(EmptyStr, Chars(StoryT), Chars(PromptT))
BlankTitleObj == Obj(Chars(<<" ">>), Chars(StoryT), Chars(PromptT))
\* Objects with a title in which another key is absent.
NoStoryObj == Dict([title |-> Chars(TitleT), image_prompt |-> Chars(PromptT)])
NoPromptObj == Dict([title |-> Chars(TitleT), story_html |-> Chars(StoryT)])

Segment(text) == Dict([type |-> Chars(<<"o", "u", "t">>), text |-> text])
OutputItem(type, segs) == Dict([type |-> Chars(type), content |-> List(segs)])
ReasoningItem == Dict([type |-> Chars(<<"r">>)])

\* The four known shapes carrying obj.
ShapeTop(obj) == obj
ShapeOutputDict(obj) == Dict([id |-> Chars(<<"r">>), output |-> obj])
ShapeOutputList(text) ==
    Dict([output |-> List(<<ReasoningItem, OutputItem(MessageType, <<Segment(text)>>)>>)])
ShapeContent(text) == Dict([content |-> List(<<Segment(text)>>)])

\* text as an object, or as a JSON string
TextForms(obj) == {obj, JsonStr(obj, FALSE), JsonStr(obj, TRUE)}

KnownShapes(obj) ==
    {ShapeTop(obj), ShapeOutputDict(obj)}
      \cup {ShapeOutputList(t) : t \in TextForms(obj)}
      \cup {ShapeContent(t) : t \in TextForms(obj)}

UnknownShapes ==
    { EmptyDict,
      List(<<TripleObj>>),
      Dict([result |-> TripleObj]),
      ShapeContent(Chars(StoryT)),
      ShapeOutputList(Chars(StoryT)),
      Dict([output |-> List(<<ReasoningItem>>)]),
      Dict([content |-> EmptyList, output |-> EmptyList]) }

\* Payloads that carry the triple under `output` behind a `content` list
\* whose first segment is a string, has a number for text, or has prose
\* for text.
MixedShapes ==
    { Dict([content |-> List(<<Chars(StoryT)>>), output |-> TripleObj]),
      Dict([content |-> List(<<Segment(Num(7))>>),
            output |-> List(<<OutputItem(MessageType,
                                         <<Segment(JsonStr(TripleObj, FALSE))>>)>>)]),
      Dict([content |-> List(<<Segment(Chars(StoryT))>>), output |-> TripleObj]) }

\* Payloads whose `output` list carries the triple as JSON text: in an entry
\* of another type, in the second segment of a message, and in the first
\* segment of a message that follows a message of prose.
TripleInOtherType ==
    Dict([output |-> List(<<OutputItem(<<"r">>, <<Segment(JsonStr(TripleObj, FALSE))>>)>>)])
TripleInSecondSegment ==
    Dict([output |-> List(<<OutputItem(MessageType,
                                       <<Segment(Chars(StoryT)),
                                         Segment(JsonStr(TripleObj, FALSE))>>)>>)])
TripleInLaterMessage ==
    Dict([output |-> List(<<OutputItem(MessageType, <<Segment(Chars(StoryT))>>),
                            OutputItem(MessageType,
                                       <<Segment(JsonStr(TripleObj, TRUE))>>)>>)])
OutputListShapes == {TripleInOtherType, TripleInSecondSegment, TripleInLaterMessage}

\* The shapes whose text is a JSON string, and the two without text.
StringShapes(obj) ==
    {ShapeTop(obj), ShapeOutputDict(obj),
     ShapeOutputList(JsonStr(obj, TRUE)), ShapeContent(JsonStr(obj, FALSE))}

PartialObjs ==
    {NullPromptObj, NoTitleObj, NullTitleObj, EmptyTitleObj, BlankTitleObj,
     NoStoryObj, NoPromptObj}

Payloads ==
    KnownShapes(TripleObj) \cup KnownShapes(OtherObj) \cup KnownShapes(EmptyStoryObj)
      \cup UNION {StringShapes(o) : o \in PartialObjs}
      \cup UnknownShapes \cup MixedShapes \cup OutputListShapes

PrimaryResponses ==
    {TransportError, Http(500, InvalidBody), Http(200, InvalidBody)}
      \cup {Http(200, b) : b \in Payloads}

ChatBody(content) ==
    Dict([choices |-> List(<<Dict([message |-> Dict([content |-> content])])>>)])

FallbackResponses ==
    { TransportError, Http(500, InvalidBody), Http(200, InvalidBody),
      Http(200, Dict([choices |-> EmptyList])),
      Http(200, ChatBody(Null)),
      Http(200, ChatBody(Chars(StoryT))),
      Http(200, ChatBody(JsonStr(TripleObj, TRUE))),
      Http(200, ChatBody(JsonStr(OtherObj, FALSE))),
      Http(200, ChatBody(JsonStr(EmptyStoryObj, FALSE))) }
      \cup {Http(200, ChatBody(JsonStr(o, FALSE))) : o \in PartialObjs}

\* ------------------------------------------------------------ generate_image
\* str.lower() and the `in` substring test, on character sequences
UpperCase == <<"A", "B", "C", "D", "E", "F", "G", "H", "I", "J", "K", "L", "M",
               "N", "O", "P", "Q", "R", "S", "T", "U", "V", "W", "X", "Y", "Z">>
LowerCase == <<"a", "b", "c", "d", "e", "f", "g", "h", "i", "j", "k", "l", "m",
               "n", "o", "p", "q", "r", "s", "t", "u", "v", "w", "x", "y", "z">>
LowerChar(c) ==
    IF \E i \in 1..Len(UpperCase) : UpperCase[i] = c
    THEN LowerCase[CHOOSE i \in 1..Len(UpperCase) : UpperCase[i] = c]
    ELSE c
LowerSeq(s) == [i \in 1..Len(s) |-> LowerChar(s[i])]
Contains(s, sub) ==
    \E i \in 0..(Len(s) - Len(sub)) : SubSeq(s, i + 1, i + Len(sub)) = sub

\* text.replace("&","&amp;").replace("<","&lt;").replace(">","&gt;")
EscapeChar(c) ==
    CASE c = "&" -> <<"&", "a", "m", "p", ";">>
      [] c = "<" -> <<"&", "l", "t", ";">>
      [] c = ">" -> <<"&", "g", "t", ";">>
      [] OTHER -> <<c>>
\* The text is escaped block by block, which keeps the recursion shallow on
\* a prompt longer than SvgLimit; the result is the character-wise escape.
EscapeBlock == 16
RECURSIVE EscapeRun(_)
EscapeRun(s) == IF s = <<>> THEN <<>> ELSE EscapeChar(Head(s)) \o EscapeRun(Tail(s))
RECURSIVE Flatten(_)
Flatten(blocks) == IF blocks = <<>> THEN <<>> ELSE Head(blocks) \o Flatten(Tail(blocks))
EscapeSeq(s) ==
    LET n == (Len(s) + EscapeBlock - 1) \div EscapeBlock
    IN Flatten([k \in 1..n |->
           EscapeRun(SubSeq(s, (k - 1) * EscapeBlock + 1,
                            IF k * EscapeBlock < Len(s) THEN k * EscapeBlock ELSE Len(s)))])

SvgLimit == 180
\* the one character U+2026
Ellipsis == "..."
Illustration == <<"i", "l", "l", "u", "s", "t", "r", "a", "t", "i", "o", "n">>

\* make_svg: the placeholder document, given by the snippet it embeds.
make_svg(text) ==
    LET safe == EscapeSeq(StripSeq(IF text = <<>> THEN Illustration ELSE text))
        snippet == IF Len(safe) > SvgLimit
                   THEN SubSeq(safe, 1, SvgLimit) \o <<Ellipsis>>
                   ELSE safe
    IN [svg |-> snippet]

Placeholder(prompt) == [bytes |-> make_svg(prompt), ext |-> "svg"]
NoAsset == [bytes |-> [raw |-> <<>>], ext |-> "none"]

\* base64.b64decode of one padded group "XY==": two 6-bit digits, one byte.
b64decode(digits) == [raw |-> <<digits[1] * 4 + digits[2] \div 16>>]

\* A slip: the extension of a JPEG is left as the content-type spells it.
ExtOfAsSpelled(content_type) ==
    LET ct == LowerSeq(content_type)
    IN IF Contains(ct, <<"p", "n", "g">>) THEN "png"
       ELSE IF Contains(ct, <<"j", "p", "e", "g">>) THEN "jpeg"
       ELSE IF Contains(ct, <<"j", "p", "g">>) THEN "jpg"
       ELSE IF Contains(ct, <<"w", "e", "b", "p">>) THEN "webp"
       ELSE IF Contains(ct, <<"s", "v", "g">>) THEN "svg"
       ELSE "png"

\* The extension inferred from the fetched image's Content-Type.
ExtOf(content_type) ==
    LET ct == LowerSeq(content_type)
    IN IF Contains(ct, <<"p", "n", "g">>) THEN "png"
       ELSE IF Contains(ct, <<"j", "p", "e", "g">>) \/ Contains(ct, <<"j", "p", "g">>)
       THEN "jpg"
       ELSE IF Contains(ct, <<"w", "e", "b", "p">>) THEN "webp"
       ELSE IF Contains(ct, <<"s", "v", "g">>) THEN "svg"
       ELSE "png"

\* One answer of the Images API to a generation request, with, for an answer
\* that names a hosted URL, the answer of the download that follows.
\*   kind:   "timeout" | "error" (another RequestException) | "http"
\*   b64:    data[0].b64_json as base64 digits (<<>> when absent)
\*   url:    whether data[0].url is present
\*   fetch:  the download: kind, status, Content-Type, content
NoFetch == [kind |-> "none", status |-> 0, ct |-> <<>>, content |-> <<>>]
Outcome(kind, status, b64, url, fetch) ==
    [kind |-> kind, status |-> status, b64 |-> b64, url |-> url, fetch |-> fetch]
PostTimeout == Outcome("timeout", 0, <<>>, FALSE, NoFetch)
PostError == Outcome("error", 0, <<>>, FALSE, NoFetch)
Status(code) == Outcome("http", code, <<>>, FALSE, NoFetch)
Inline(digits) == Outcome("http", 200, digits, FALSE, NoFetch)
Hosted(fetch) == Outcome("http", 200, <<>>, TRUE, fetch)
Fetched(ct, content) == [kind |-> "http", status |-> 200, ct |-> ct, content |-> content]
FetchFailed(kind, status) == [kind |-> kind, status |-> status, ct |-> <<>>, content |-> <<>>]

Attempts == 3
BackoffBase == 2

\* A slip: only timeouts are caught, any other RequestException (the HTTPError
\* of raise_for_status included) leaves the function.
RequestErrorUncaught(attempt) == [act |-> "raise", sleep |-> 0, asset |-> NoAsset]

\* except requests.exceptions.RequestException: sleep, then the next attempt
RequestErrorCaught(attempt) ==
    [act |-> "retry", sleep |-> BackoffBase * (attempt + 1), asset |-> NoAsset]

\* A slip: 401/403 handled like any other error status.
PermissionDeniedRetried(prompt, attempt) == RequestErrorCaught(attempt)

\* if r.status_code in (401, 403): return make_svg(prompt), "svg"
PermissionDenied(prompt, attempt) ==
    [act |-> "return", sleep |-> 0, asset |-> Placeholder(prompt)]

\* A slip: a 5xx answer gives up at once with the placeholder.
ServerErrorGivesUp(prompt, attempt) ==
    [act |-> "return", sleep |-> 0, asset |-> Placeholder(prompt)]

\* A slip: the wait after a 5xx answer does not grow with the attempt.
ServerErrorConstantWait(prompt, attempt) ==
    [act |-> "retry", sleep |-> BackoffBase, asset |-> NoAsset]

\* if 500 <= r.status_code < 600: sleep, continue
ServerError(prompt, attempt) ==
    [act |-> "retry", sleep |-> BackoffBase * (attempt + 1), asset |-> NoAsset]

\* The body of the retry loop for the attempt numbered `attempt` (from 0)
\* answered by o: return an asset, or sleep and go on to the next attempt.
ImageAttempt(o, prompt, attempt) ==
    IF o.kind = "timeout"
    THEN [act |-> "retry", sleep |-> BackoffBase * (attempt + 1), asset |-> NoAsset]
    ELSE IF o.kind = "error" THEN RequestErrorCaught(attempt)
    ELSE IF o.status \in {401, 403} THEN PermissionDenied(prompt, attempt)
    ELSE IF 500 <= o.status /\ o.status < 600 THEN ServerError(prompt, attempt)
    ELSE IF o.status >= 400 THEN RequestErrorCaught(attempt)
    ELSE IF o.b64 # <<>>
    THEN [act |-> "return", sleep |-> 0,
          asset |-> [bytes |-> b64decode(o.b64), ext |-> "png"]]
    ELSE IF o.url
    THEN IF o.fetch.kind = "timeout"
         THEN [act |-> "retry", sleep |-> BackoffBase * (attempt + 1), asset |-> NoAsset]
         ELSE IF o.fetch.kind = "error" \/ o.fetch.status >= 400
         THEN RequestErrorCaught(attempt)
         ELSE [act |-> "return", sleep |-> 0,
               asset |-> [bytes |-> [raw |-> o.fetch.content], ext |-> ExtOf(o.fetch.ct)]]
    ELSE [act |-> "return", sleep |-> 0, asset |-> Placeholder(prompt)]

\* A slip: a retry that does not count against the attempt budget.
NextAttemptStuck(attempt, r) == IF r.act = "retry" THEN attempt ELSE attempt + 1

\* for attempt in range(3): the next value of the loop variable
NextAttempt(attempt, r) == attempt + 1

\* -------------------------------------------------------------------- main
Letters == {UpperCase[i] : i \in 1..Len(UpperCase)} \cup {LowerCase[i] : i \in 1..Len(LowerCase)}
Digits == {"0", "1", "2", "3", "4", "5", "6", "7", "8", "9"}
\* the characters re.sub(r"[^A-Za-z0-9 -]", "", s) keeps
SlugChar(c) == c \in Letters \cup Digits \cup {" ", "-"}
\* re.sub(r"\s+", "-", s)
RECURSIVE CollapseWhitespace(_)
CollapseWhitespace(s) ==
    IF s = <<>> THEN <<>>
    ELSE IF Head(s) \in Whitespace
    THEN <<"-">> \o CollapseWhitespace(LStripSeq(s))
    ELSE <<Head(s)>> \o CollapseWhitespace(Tail(s))
SlugMax == 60
StoryToken == <<"s", "t", "o", "r", "y">>

\* A slip: the slug is not cut to its first SlugMax characters.
slugify_uncut(s) ==
    LET clean == CollapseWhitespace(LowerSeq(StripSeq(SelectSeq(s, SlugChar))))
    IN IF clean = <<>> THEN StoryToken ELSE clean

slugify(s) ==
    LET clean == CollapseWhitespace(LowerSeq(StripSeq(SelectSeq(s, SlugChar))))
        cut == SubSeq(clean, 1, Min(SlugMax, Len(clean)))
    IN IF cut = <<>> THEN StoryToken ELSE cut

\* slugify of make_postold.py: the class [^a-zA-Z0-9\- ] keeps the same
\* characters as [^A-Za-z0-9 -]; the rest is the same text.
slugify_old(s) ==
    LET clean == CollapseWhitespace(LowerSeq(StripSeq(SelectSeq(s, SlugChar))))
        cut == SubSeq(clean, 1, Min(SlugMax, Len(clean)))
    IN Ok(IF cut = <<>> THEN StoryToken ELSE cut)

\* slugify of make_posts.py: in the raw string r"[^a-zA-Z0-9\\- ]" the two
\* backslashes are one escaped backslash, so the class ends with the range
\* from "\" to " ", whose ends are in the wrong order: re.sub raises re.error
\* ("bad character range") when it compiles the pattern, whatever s is.
slugify_posts(s) == Raise("re.error")

\* utcnow_randomized_today() as the set of its outcomes at time t: the names
\* RANDOM_HOUR_START, RANDOM_HOUR_END and random are bound nowhere in the
\* module, so evaluating its second statement raises NameError.
utcnow_randomized_today_defined(t) ==
    {Ok((t \div DayLen) * DayLen + r) : r \in 0..(DayLen - 1)}
utcnow_randomized_today(t) == {Raise("NameError")}

\* `if MAX_FEED_POSTS > 0: trim_feed(FEED, MAX_FEED_POSTS)`: neither name is
\* bound in the module.
OptionalTrim(f) == [raised |-> "NameError", doc |-> f]

\* generate_image as a function of the answers it receives, from attempt a on.
RECURSIVE generate_image_from(_, _, _)
generate_image_from(prompt, script, a) ==
    IF a >= Attempts THEN Placeholder(prompt)
    ELSE LET r == ImageAttempt(script[a + 1], prompt, a)
         IN IF r.act = "retry" THEN generate_image_from(prompt, script, a + 1)
            ELSE r.asset

MimeOf(ext) ==
    CASE ext = "png" -> "image/png"
      [] ext = "jpg" -> "image/jpeg"
      [] ext = "jpeg" -> "image/jpeg"
      [] ext = "webp" -> "image/webp"
      [] ext = "svg" -> "image/svg+xml"
      [] OTHER -> "image/png"

\* slug = f"{slugify(title)}-{timestamp}", and no slug yet
Slug(base, ts) == [base |-> base, ts |-> ts]
NoSlug == [base |-> <<>>, ts |-> -1]
PostUrl(slug, ts) == [base |-> "PUBLIC_BASE_URL", dir |-> "posts", slug |-> slug, ts |-> ts]
ImgUrl(ts, ext) == [base |-> "PUBLIC_BASE_URL", dir |-> "images", ts |-> ts, ext |-> ext]
PostFile(slug, ts) == [dir |-> "posts", slug |-> slug, ts |-> ts, ext |-> "html"]
ImgFile(ts, ext) == [dir |-> "images", slug |-> <<>>, ts |-> ts, ext |-> ext]

\* main() from `timestamp = ...` to its end, for a story, a randomized
\* publication time ts and an image asset: the files written, the feed
\* persisted and how the run ends.
MainTail(f, story, ts, asset, n, t) ==
    LET slug == slugify(story.title.txt.s)
        img_abs_url == ImgUrl(ts, asset.ext)
        post_url == PostUrl(slug, ts)
        it == MakeItem(story.title, post_url, story.story_html, img_abs_url,
                       MimeOf(asset.ext), t)
        a == append_rss_item(f, it, n, t)
        o == OptionalTrim(a.doc)
    IN [slug |-> Slug(slug, ts),
        steps |-> <<"timestamp", "slug", "generate_image", "write_image", "write_post",
                    "append_rss_item">>
                    \o (IF a.raised = "none" THEN <<"trim_feed">> ELSE <<>>),
        written |-> {ImgFile(ts, asset.ext), PostFile(slug, ts)},
        item |-> Stored(it),
        appended |-> (a.raised = "none"),
        doc |-> IF a.raised = "none" THEN o.doc ELSE a.doc,
        raised |-> IF a.raised # "none" THEN a.raised ELSE o.raised]

\* ------------------------------------------------------------------ inputs
Titles == {TitleT, <<"b", " ", "c">>}
\* the stories append_rss_item is called with: markup, and text that holds an
\* ampersand, the letters of an entity reference and a carriage return
StoryOf(title) ==
    IF title = TitleT THEN StoryT ELSE <<"&", "l", "t", ";", "\r", "\n", "x">>
\* the answers of the two text endpoints a run of main() is checked with
MainPrimaryResponses ==
    {TransportError, Http(200, ShapeTop(TripleObj)), Http(200, ShapeContent(TripleObj)),
     Http(200, ShapeOutputList(JsonStr(OtherObj, FALSE)))}
MainFallbackResponses ==
    {Http(500, InvalidBody), Http(200, ChatBody(JsonStr(TripleObj, TRUE)))}

\* -------------------------------------------------------- image inputs
Prompts == {PromptT, <<"a", "&", "<">>}
PngBytes == <<137, 80>>
ImageOutcomes ==
    { PostTimeout, PostError,
      Status(401), Status(403), Status(500), Status(503), Status(400), Status(429),
      Inline(<<19, 16>>), Inline(<<63, 48>>),
      Hosted(Fetched(<<"i", "m", "a", "g", "e", "/", "p", "n", "g">>, PngBytes)),
      Hosted(Fetched(<<"i", "m", "a", "g", "e", "/", "J", "P", "E", "G">>, <<255, 216>>)),
      Hosted(Fetched(<<"i", "m", "a", "g", "e", "/", "w", "e", "b", "p">>, <<82>>)),
      Hosted(Fetched(<<"i", "m", "a", "g", "e", "/", "s", "v", "g", "+", "x", "m", "l">>,
                     <<60>>)),
      Hosted(Fetched(<<"i", "m", "a", "g", "e", "/", "j", "p", "g">>, <<255, 217>>)),
      Hosted(Fetched(<<"b", "i", "n">>, <<1>>)),
      Hosted(Fetched(<<>>, <<2>>)),
      Hosted(FetchFailed("timeout", 0)),
      Hosted(FetchFailed("error", 0)),
      Hosted(FetchFailed("http", 404)),
      Status(200) }


\* ----------------------------------------------------------------- actions
NoResponse == [kind |-> "none", status |-> 0, body |-> InvalidBody]
NormIdle == [pc |-> "idle", primary |-> NoResponse, fallback |-> NoResponse,
             fb_calls |-> 0, result |-> None, printed |-> <<>>, error |-> NoMessage]
GiIdle == [pc |-> "idle", prompt |-> <<>>, script |-> <<>>, attempt |-> 0,
           requests |-> 0, sleeps |-> <<>>, raised |-> FALSE, asset |-> NoAsset]

FeedInit ==
    /\ feed \in {NoFile, NewFeed(0), NoChannelFeed}
    /\ now = 0
    /\ max_posts \in 0..MaxCap
    /\ log = <<>>
    /\ calls = 0
    /\ last = "none"

RunIdle == [pc |-> "idle", story |-> TripleT, has_story |-> FALSE,
            feed0 |-> NoFile, err |-> "none", slug |-> NoSlug, steps |-> <<>>]
SlIdle == [pc |-> "idle", title |-> <<>>, slug |-> <<>>]
SvIdle == [pc |-> "idle", text |-> <<>>, svg |-> <<>>]

Init ==
    /\ FeedInit
    /\ norm = NormIdle /\ gi = GiIdle /\ run = RunIdle /\ files = {}
    /\ slugs = {} /\ sl = SlIdle /\ sv = SvIdle

\* The initial state of the specifications of the two API clients, which
\* leave the feed store alone.
InitClients ==
    /\ feed = NoFile /\ now = 0 /\ max_posts = 0
    /\ log = <<>> /\ calls = 0 /\ last = "none"
    /\ norm = NormIdle /\ gi = GiIdle /\ run = RunIdle /\ files = {}
    /\ slugs = {} /\ sl = SlIdle /\ sv = SvIdle

Tick ==
    /\ now < MaxClock
    /\ now' = now + 1
    /\ UNCHANGED <<feed, max_posts, log, calls, last, norm, gi, run, files, slugs, sl, sv>>

\* ensure_feed() and append_rss_item() called on their own, between runs.
EnsureFeed ==
    /\ run.pc = "idle"
    /\ feed' = ensure_feed(feed, now)
    /\ last' = "ensure_feed"
    /\ UNCHANGED <<now, max_posts, log, calls, norm, gi, run, files, slugs, sl, sv>>

AppendRssItem ==
    /\ run.pc = "idle"
    /\ calls < MaxAppends
    /\ \E title \in Titles :
         LET it == MakeItem(Chars(title), PostUrl(slugify(title), now),
                            Chars(StoryOf(title)), ImgUrl(now, "png"), MimeOf("png"), now)
             r == append_rss_item(feed, it, max_posts, now)
         IN /\ feed' = r.doc
            /\ last' = IF r.raised = "none" THEN "append_rss_item" ELSE r.raised
            /\ log' = IF r.raised = "none" THEN Append(log, Stored(it)) ELSE log
            /\ calls' = calls + 1
    /\ UNCHANGED <<now, max_posts, norm, gi, run, files, slugs, sl, sv>>

\* ---- the feed functions of the earlier scripts, called on their own
EnsureFeedOld ==
    /\ run.pc = "idle"
    /\ feed' = ensure_feed_old(feed, now)
    /\ last' = "ensure_feed"
    /\ UNCHANGED <<now, max_posts, log, calls, norm, gi, run, files, slugs, sl, sv>>

EnsureFeedPosts ==
    /\ run.pc = "idle"
    /\ feed' = ensure_feed_posts(feed, now)
    /\ last' = "ensure_feed"
    /\ UNCHANGED <<now, max_posts, log, calls, norm, gi, run, files, slugs, sl, sv>>

AppendRssItemOld ==
    /\ run.pc = "idle"
    /\ calls < MaxAppends
    /\ LET it == MakeItemOld(Chars(TitleT), PostUrl(slugify(TitleT), now),
                             Chars(StoryOf(TitleT)), ImgUrl(now, "png"), now)
           r == append_rss_item_old(feed, it, now)
       IN /\ feed' = r.doc
          /\ last' = IF r.raised = "none" THEN "append_rss_item" ELSE r.raised
          /\ log' = IF r.raised = "none" THEN Append(log, Stored(it)) ELSE log
          /\ calls' = calls + 1
    /\ UNCHANGED <<now, max_posts, norm, gi, run, files, slugs, sl, sv>>

AppendRssItemPosts ==
    /\ run.pc = "idle"
    /\ calls < MaxAppends
    /\ LET it == MakeItemOld(Chars(TitleT), PostUrl(slugify(TitleT), now),
                             Chars(StoryOf(TitleT)), ImgUrl(now, "png"), now)
           r == append_rss_item_posts(feed, it, now)
       IN /\ feed' = r.doc
          /\ last' = IF r.raised = "none" THEN "append_rss_item" ELSE r.raised
          /\ log' = IF r.raised = "none" THEN Append(log, Stored(it)) ELSE log
          /\ calls' = calls + 1
    /\ UNCHANGED <<now, max_posts, norm, gi, run, files, slugs, sl, sv>>

\* ---- main(), one step per call that can end the run
\* The script starts: the module body reads OPENAI_API_KEY from the
\* environment (KeyError when unset), then main() calls ensure_feed().
MainStart ==
    /\ run.pc = "idle"
    /\ \E key_set \in BOOLEAN :
         IF key_set
         THEN /\ feed' = ensure_feed(feed, now)
              /\ run' = [RunIdle EXCEPT !.pc = "story", !.feed0 = feed,
                                         !.steps = <<"ensure_feed">>]
              /\ last' = "ensure_feed"
         ELSE /\ run' = [RunIdle EXCEPT !.pc = "raised", !.feed0 = feed, !.err = "KeyError"]
              /\ UNCHANGED <<feed, last>>
    /\ UNCHANGED <<now, max_posts, log, calls, norm, gi, files, slugs, sl, sv>>

\* title, story_html, image_prompt = get_story_and_prompt()
MainGetStory ==
    /\ run.pc = "story"
    /\ \E primary \in MainPrimaryResponses, fallback \in MainFallbackResponses :
         LET r == get_story_and_prompt(primary, fallback)
         IN run' = IF r.st = "ok"
                   THEN [run EXCEPT !.pc = "stamp", !.story = r.v, !.has_story = TRUE,
                                    !.steps = Append(run.steps, "get_story_and_prompt")]
                   ELSE [run EXCEPT !.pc = "raised", !.err = "RuntimeError",
                                    !.steps = Append(run.steps, "get_story_and_prompt")]
    /\ UNCHANGED <<feed, now, max_posts, log, calls, last, norm, gi, files, slugs, sl, sv>>

\* pub_dt = utcnow_randomized_today(), and, when that returns, the rest of
\* main(): image, post file, feed item, optional trim.
MainPublish ==
    /\ run.pc = "stamp"
    /\ \E o \in utcnow_randomized_today(now) :
         IF o.st = "raise"
         THEN /\ run' = [run EXCEPT !.pc = "raised", !.err = o.exc,
                                    !.steps = Append(run.steps, "timestamp")]
              /\ UNCHANGED <<feed, log, last, files, slugs>>
         ELSE \E script \in [1..Attempts -> {Status(503), Status(403), Inline(<<19, 16>>)}] :
                LET asset == generate_image_from(run.story.image_prompt.txt.s, script, 0)
                    m == MainTail(feed, run.story, o.v, asset, max_posts, now)
                IN /\ slugs' = slugs \cup {[at |-> now, slug |-> m.slug]}
                   /\ files' = files \cup m.written
                   /\ feed' = m.doc
                   /\ log' = IF m.appended THEN Append(log, m.item) ELSE log
                   /\ last' = IF m.appended THEN "append_rss_item" ELSE last
                   /\ run' = [run EXCEPT !.pc = IF m.raised = "none" THEN "done" ELSE "raised",
                                          !.err = m.raised,
                                          !.slug = m.slug,
                                          !.steps = run.steps \o m.steps]
    /\ UNCHANGED <<now, max_posts, calls, norm, gi, sl, sv>>

\* The process exits.
MainExit ==
    /\ run.pc \in {"raised", "done"}
    /\ run' = RunIdle
    /\ UNCHANGED <<feed, now, max_posts, log, calls, last, norm, gi, files, slugs, sl, sv>>

Next == Tick \/ EnsureFeed \/ AppendRssItem \/ MainStart \/ MainGetStory
          \/ MainPublish \/ MainExit

Spec == Init /\ [][Next]_vars

\* The three scripts' feed functions on the one docs/feed.xml.
NextFeeds ==
    Tick \/ EnsureFeed \/ AppendRssItem \/ EnsureFeedOld \/ AppendRssItemOld
      \/ EnsureFeedPosts \/ AppendRssItemPosts

SpecFeeds == Init /\ [][NextFeeds]_vars

\* ---- get_story_and_prompt, one step per request
\* The Responses API request is sent and answered.
NormCall ==
    /\ norm.pc = "idle"
    /\ \E resp \in PrimaryResponses :
         norm' = [NormIdle EXCEPT !.pc = "primary", !.primary = resp]
    /\ UNCHANGED feedVars /\ UNCHANGED gi

\* A slip: the `return got` of the primary path is missing.
NormPrimaryFallsThrough ==
    /\ norm.pc = "primary"
    /\ norm' = [norm EXCEPT !.pc = "fallback"]
    /\ UNCHANGED feedVars /\ UNCHANGED gi

\* The answer is examined: return the triple, or fall through to the fallback.
NormPrimary ==
    /\ norm.pc = "primary"
    /\ LET r == get_story_primary(norm.primary)
       IN norm' = IF r.st = "ok"
                  THEN [norm EXCEPT !.pc = "returned", !.result = r]
                  ELSE [norm EXCEPT !.pc = "fallback",
                                    !.printed = <<primary_warning(norm.primary)>>]
    /\ UNCHANGED feedVars /\ UNCHANGED gi

\* The Chat Completions request is sent, answered and examined.
NormFallback ==
    /\ norm.pc = "fallback"
    /\ \E resp \in FallbackResponses :
         LET r == get_story_fallback(resp)
         IN norm' = [norm EXCEPT !.pc = IF r.st = "ok" THEN "returned" ELSE "raised",
                                 !.fallback = resp,
                                 !.fb_calls = norm.fb_calls + 1,
                                 !.result = r,
                                 !.error = fallback_error(resp)]
    /\ UNCHANGED feedVars /\ UNCHANGED gi

NormDone ==
    /\ norm.pc \in {"returned", "raised"}
    /\ norm' = NormIdle
    /\ UNCHANGED feedVars /\ UNCHANGED gi

NextNorm == NormCall \/ NormPrimary \/ NormFallback \/ NormDone

SpecNorm == InitClients /\ [][NextNorm]_vars

\* ---- generate_image, one step per attempt
GenerateImageCall ==
    /\ gi.pc = "idle"
    /\ \E prompt \in Prompts :
         gi' = [GiIdle EXCEPT !.pc = "loop", !.prompt = prompt]
    /\ UNCHANGED feedVars /\ UNCHANGED norm

\* One iteration of the retry loop: a request, its answer o (recorded in
\* gi.script, the answers so far), and what the answer leads to.
GenerateImageAttempt ==
    /\ gi.pc = "loop"
    /\ gi.attempt < Attempts
    /\ \E o \in ImageOutcomes :
       LET r == ImageAttempt(o, gi.prompt, gi.attempt)
       IN gi' = [gi EXCEPT !.requests = gi.requests + 1,
                           !.script = Append(gi.script, o),
                           !.attempt = NextAttempt(gi.attempt, r),
                           !.sleeps = IF r.act = "retry"
                                      THEN Append(gi.sleeps, r.sleep) ELSE gi.sleeps,
                           !.pc = IF r.act = "retry" THEN "loop" ELSE "returned",
                           !.raised = (r.act = "raise"),
                           !.asset = r.asset]
    /\ UNCHANGED feedVars /\ UNCHANGED norm

\* "After retries, fallback": the loop ran out.
GenerateImageExhausted ==
    /\ gi.pc = "loop"
    /\ gi.attempt >= Attempts
    /\ gi' = [gi EXCEPT !.pc = "returned", !.asset = Placeholder(gi.prompt)]
    /\ UNCHANGED feedVars /\ UNCHANGED norm

GenerateImageDone ==
    /\ gi.pc = "returned"
    /\ gi' = GiIdle
    /\ UNCHANGED feedVars /\ UNCHANGED norm

NextImage ==
    GenerateImageCall \/ GenerateImageAttempt \/ GenerateImageExhausted
      \/ GenerateImageDone

SpecImage == InitClients /\ [][NextImage]_vars

FairSpecImage ==
    SpecImage /\ WF_vars(GenerateImageAttempt) /\ WF_vars(GenerateImageExhausted)

\* ---- slugify, called on its own
\* The titles it is called with: every string of at most MaxTitleLen
\* characters of TitleChars, and three fixed titles, two of them longer than
\* SlugMax characters.
TitleChars == {"A", "b", "2", " ", "-", "!", "\t"}
MidnightTitle ==
    <<"M", "i", "d", "n", "i", "g", "h", "t", "!", " ", "R", "u", "n", "?", "?", " ", "(", "2", "0", "2", "4", ")">>
LongTitle == [i \in 1..(SlugMax + 1) |-> "a"]
LongSpacedTitle == [i \in 1..(SlugMax - 1) |-> "Z"] \o <<" ", " ", "b", "c">>
SlugTitles ==
    UNION {[1..n -> TitleChars] : n \in 0..MaxTitleLen}
      \cup {MidnightTitle, LongTitle, LongSpacedTitle}

SlugifyCall ==
    /\ sl.pc = "idle"
    /\ \E title \in SlugTitles :
         sl' = [pc |-> "returned", title |-> title, slug |-> slugify(title)]
    /\ UNCHANGED <<feed, now, max_posts, log, calls, last, norm, gi, run, files, slugs, sv>>

SlugifyDone ==
    /\ sl.pc = "returned"
    /\ sl' = SlIdle
    /\ UNCHANGED <<feed, now, max_posts, log, calls, last, norm, gi, run, files, slugs, sv>>

\* slugify of the two earlier scripts
SlugifyOldCall ==
    /\ sl.pc = "idle"
    /\ \E title \in SlugTitles :
         LET r == slugify_old(title)
         IN sl' = [pc |-> IF r.st = "ok" THEN "returned_old" ELSE "raised_old",
                   title |-> title, slug |-> IF r.st = "ok" THEN r.v ELSE <<>>]
    /\ UNCHANGED <<feed, now, max_posts, log, calls, last, norm, gi, run, files, slugs, sv>>

SlugifyPostsCall ==
    /\ sl.pc = "idle"
    /\ \E title \in SlugTitles :
         LET r == slugify_posts(title)
         IN sl' = [pc |-> IF r.st = "ok" THEN "returned_posts" ELSE "raised_posts",
                   title |-> title, slug |-> IF r.st = "ok" THEN r.v ELSE <<>>]
    /\ UNCHANGED <<feed, now, max_posts, log, calls, last, norm, gi, run, files, slugs, sv>>

SlugifyVariantDone ==
    /\ sl.pc \in {"returned_old", "raised_old", "returned_posts", "raised_posts"}
    /\ sl' = SlIdle
    /\ UNCHANGED <<feed, now, max_posts, log, calls, last, norm, gi, run, files, slugs, sv>>

NextSlug ==
    SlugifyCall \/ SlugifyDone \/ SlugifyOldCall \/ SlugifyPostsCall
      \/ SlugifyVariantDone

SpecSlug == InitClients /\ [][NextSlug]_vars

\* ---- make_svg, called on its own
\* The texts it is called with: every string of at most MaxTextLen characters
\* of SvgChars, and fixed texts around SvgLimit characters, one of which puts
\* an "&" two characters before the limit.
SvgChars == {"a", "&", "<", ">", " "}
MaxTextLen == 3
ShortText == [i \in 1..SvgLimit |-> "a"]
LongText == [i \in 1..(SvgLimit + 2) |-> "a"]
LongPrompt == [i \in 1..(SvgLimit - 2) |-> "a"] \o <<"&", "b", "b", "b">>
LongTagPrompt == [i \in 1..(SvgLimit - 1) |-> "a"] \o <<"<", "b", ">">>
SvgTexts ==
    UNION {[1..n -> SvgChars] : n \in 0..MaxTextLen}
      \cup {ShortText, LongText, LongPrompt, LongTagPrompt}

MakeSvgCall ==
    /\ sv.pc = "idle"
    /\ \E text \in SvgTexts :
         sv' = [pc |-> "returned", text |-> text, svg |-> make_svg(text).svg]
    /\ UNCHANGED <<feed, now, max_posts, log, calls, last, norm, gi, run, files, slugs, sl>>

MakeSvgDone ==
    /\ sv.pc = "returned"
    /\ sv' = SvIdle
    /\ UNCHANGED <<feed, now, max_posts, log, calls, last, norm, gi, run, files, slugs, sl>>

NextSvg == MakeSvgCall \/ MakeSvgDone

SpecSvg == InitClients /\ [][NextSvg]_vars

\* ------------------------------------------------------------------ claims

\* C1 (as stated): for every capacity N >= 0, immediately after the trim step
\* of append_rss_item the persisted feed holds at most N items.
C1_AtMostCapacity == last = "append_rss_item" => Len(feed.items) <= max_posts

C11_AppendPreserves ==
    [][ (calls' = calls + 1 /\ last' = "append_rss_item") =>
            LET old == feed.items
                new == feed'.items
                kept == Len(new) - 1
            IN /\ Len(new) >= 1
               /\ new[Len(new)] = log'[Len(log')]
               /\ kept <= Len(old)
               /\ SubSeq(new, 1, kept) = LastN(old, kept)
               /\ (Len(old) < max_posts => SubSeq(new, 1, kept) = old) ]_vars

\* An append has evicted the oldest item and kept, unchanged, an item whose
\* story is markup and one whose story holds an ampersand.
C11_Witness ==
    /\ last = "append_rss_item"
    /\ max_posts = 2
    /\ Len(log) >= 3
    /\ Len(feed.items) = 2
    /\ feed.items[1].description.story_html = Chars(StoryT)
    /\ feed.items[1].title = Chars(TitleT)
    /\ feed.items[2].description.story_html = Chars(<<"&", "l", "t", ";", "\n", "x">>)

\* ---- main()
\* C4 (as stated): a run of main() in which the text API yields a valid
\* StoryRecord runs to completion and appends exactly one item to the feed,
\* with link = guid = the post URL and enclosure url = the image URL.
C4_ValidStoryPublishes ==
    (run.has_story /\ run.pc \in {"raised", "done"}) =>
        /\ run.pc = "done"
        /\ feed.items # <<>>
        /\ LET it == feed.items[Len(feed.items)]
           IN /\ feed.items = TrimItems(Append(ensure_feed(run.feed0, 0).items, it), max_posts)
              /\ it.title = run.story.title
              /\ it.link = it.guid
              /\ it.link.dir = "posts"
              /\ it.enclosure.url.dir = "images"

\* C18 (as stated): every run of main() that has its story makes a slug, and
\* the slugs of two runs made at different wall-clock seconds differ, even
\* when the sanitized titles are equal.
C18_DistinctSlugs ==
    /\ \A a \in slugs, b \in slugs : a.at # b.at => a.slug # b.slug
    /\ (run.has_story /\ run.pc \in {"raised", "done"}) => run.slug # NoSlug

\* The feed item it names the file f: a post by its link, an image by its
\* enclosure.
References(it, f) ==
    IF f.dir = "posts"
    THEN it.link = PostUrl(f.slug, f.ts)
    ELSE it.enclosure.url = ImgUrl(f.ts, f.ext)

C27_OneLastBuildDate ==
    [][ /\ Len(log') > Len(log) => feed'.lbd = <<now>>
        /\ (Len(log') = Len(log) /\ feed.exists) => feed'.lbd = feed.lbd ]_vars

\* C28 (as stated): the slugify of make_postold.py and the slugify of
\* make_posts.py are equivalent to the slugify of make_post.py: on every
\* title each returns normally, and returns the same slug.
C28_SlugifyVariantsAgree ==
    sl.pc \in {"returned_old", "raised_old", "returned_posts", "raised_posts"} =>
        /\ sl.pc \in {"returned_old", "returned_posts"}
        /\ sl.slug = slugify(sl.title)

\* C19: ensure_feed is idempotent.  With no document it creates one with an
\* empty item list and one channel; with a document it leaves the document,
\* its items and lastBuildDate included, unchanged; so calling it again
\* changes nothing.
C19_EnsureFeedIdempotent ==
    [][ last' = "ensure_feed" =>
          /\ feed.exists => feed' = feed
          /\ ~feed.exists =>
                /\ feed'.exists /\ feed'.channel
                /\ feed'.items = <<>>
                /\ Len(feed'.lbd) = 1
          /\ \A t \in 0..MaxClock : ensure_feed(feed', t) = feed' ]_vars

\* ensure_feed has just been called, later than the last append, on a
\* document with items.
C19_Witness ==
    /\ last = "ensure_feed"
    /\ Len(feed.items) >= 1
    /\ feed.lbd # <<>>
    /\ feed.lbd[1] < now

\* C20: under a non-decreasing wall clock the feed's lastBuildDate never
\* decreases, and after each successful append_rss_item it is the time of
\* that append.
C20_LastBuildDateMonotone ==
    [][ /\ now' >= now
        /\ (feed.lbd # <<>> /\ feed.channel) =>
              /\ Len(feed'.lbd) = Len(feed.lbd)
              /\ feed'.lbd[1] >= feed.lbd[1]
        /\ Len(log') > Len(log) => (feed'.lbd # <<>> /\ feed'.lbd[1] = now) ]_vars

\* Two appends at different times: lastBuildDate is the time of the later.
C20_Witness ==
    /\ last = "append_rss_item"
    /\ Len(feed.items) >= 2
    /\ feed.items[Len(feed.items) - 1].pubDate < now
    /\ feed.items[Len(feed.items)].pubDate = now
    /\ feed.lbd = <<now>>

\* The steps of a run in the order of the claim (persisting is part of
\* append_rss_item).
ClaimedOrder ==
    <<"ensure_feed", "get_story_and_prompt", "generate_image", "write_image", "timestamp",
      "slug", "write_post", "append_rss_item", "trim_feed">>
Place(step) == CHOOSE i \in 1..Len(ClaimedOrder) : ClaimedOrder[i] = step
Before(a, b) ==
    \A j \in 1..Len(run.steps) :
        run.steps[j] = b => \E i \in 1..(j - 1) : run.steps[i] = a

\* C21 (as stated): in every run of main() the steps occur in the order
\* ensure the feed, normalize the text response, acquire the image, compute
\* the timestamp, compute the slug, write the post, append the feed item,
\* trim; the timestamp is computed after the image has been acquired and the
\* feed is written only after the post.
C21_StepOrder ==
    /\ \A i \in 1..Len(run.steps), j \in 1..Len(run.steps) :
          i < j => Place(run.steps[i]) < Place(run.steps[j])
    /\ Before("generate_image", "timestamp")
    /\ Before("write_post", "append_rss_item")

\* C5: when a run of main() ends in a fatal error, the items of the persisted
\* feed are those the run found: none added, removed or altered.
C5_FatalLeavesFeedItems ==
    run.pc = "raised" => feed.items = run.feed0.items

C5_Witness ==
    /\ run.pc = "raised"
    /\ run.err = "NameError"
    /\ run.has_story
    /\ Len(feed.items) = 2
    /\ feed.items = run.feed0.items

\* ---- get_story_and_prompt
\* C6 (as stated): a payload carrying the triple T in any of the four known
\* shapes, with `text` as an object or as a JSON string, is normalized by the
\* primary path to T, and the fallback call is not made.
C6_KnownShapesAgree ==
    ( /\ norm.pc \in {"fallback", "returned", "raised"}
      /\ norm.primary.kind = "http"
      /\ norm.primary.status = 200
      /\ norm.primary.body \in KnownShapes(TripleObj) )
    => /\ norm.pc = "returned"
       /\ norm.result = Ok(TripleT)
       /\ norm.fb_calls = 0

\* The primary answer has been examined / both answers have been.
PrimaryExamined == norm.pc \in {"fallback", "returned", "raised"}
Finished == norm.pc \in {"returned", "raised"}
PrimaryIs200(bodies) ==
    /\ norm.primary.kind = "http"
    /\ norm.primary.status = 200
    /\ norm.primary.body \in bodies
FallbackObjs(objs) ==
    {Http(200, ChatBody(JsonStr(o, pad))) : o \in objs, pad \in BOOLEAN}
NonEmptyText(v) == v # Null /\ v # EmptyStr

\* C12: every record get_story_and_prompt returns, from the primary path or
\* from the chat fallback, has a non-empty story_html and a non-empty
\* image_prompt; an object whose story_html or image_prompt is empty yields no
\* record on either path.
C12_ReturnedRecordsComplete ==
    /\ norm.pc = "returned" =>
          /\ norm.result.st = "ok"
          /\ NonEmptyText(norm.result.v.story_html)
          /\ NonEmptyText(norm.result.v.image_prompt)
    /\ ( /\ PrimaryExamined
         /\ PrimaryIs200(KnownShapes(EmptyStoryObj) \cup StringShapes(NullPromptObj)) )
       => (norm.pc = "returned" => norm.fb_calls = 1)
    /\ (Finished /\ norm.fallback \in FallbackObjs({EmptyStoryObj, NullPromptObj}))
       => norm.pc = "raised"

\* The primary answer carried an object with an empty story, and the record
\* returned is the fallback's.
C12_Witness ==
    /\ norm.pc = "returned"
    /\ norm.fb_calls = 1
    /\ PrimaryIs200({ShapeTop(EmptyStoryObj)})
    /\ norm.result = Ok(TripleT)

DefaultTitleT == [TripleT EXCEPT !.title = DefaultTitle]
TitleLessObjs == {NoTitleObj, NullTitleObj, EmptyTitleObj}

\* C13 (as stated): an object with a non-empty story_html and image_prompt
\* whose title is absent, null or empty is normalized (on either path) to
\* the record with the default title "Automated Story"; an object in which
\* story_html or image_prompt is absent is not normalized.
C13_TitleOptional ==
    /\ ( /\ PrimaryExamined
         /\ PrimaryIs200(UNION {StringShapes(o) : o \in TitleLessObjs}) )
       => /\ norm.pc = "returned"
          /\ norm.fb_calls = 0
          /\ norm.result = Ok(DefaultTitleT)
    /\ (Finished /\ norm.fallback \in FallbackObjs(TitleLessObjs))
       => /\ norm.pc = "returned"
          /\ norm.result = Ok(DefaultTitleT)
    /\ ( /\ PrimaryExamined
         /\ PrimaryIs200(StringShapes(NoStoryObj) \cup StringShapes(NoPromptObj)) )
       => (norm.pc = "returned" => norm.fb_calls = 1)

\* Payloads (JSON objects) in none of the known shapes, and fallback answers
\* whose text is not JSON or is an object that does not match.
UnmatchedBodies == UnknownShapes \ {List(<<TripleObj>>)}
UnmatchedAnswers ==
    {Http(200, ChatBody(Chars(StoryT)))} \cup FallbackObjs({EmptyStoryObj, NoStoryObj})
NeitherMatches ==
    /\ Finished
    /\ PrimaryIs200(UnmatchedBodies)
    /\ norm.fallback \in UnmatchedAnswers

PrimaryYields ==
    /\ norm.primary.kind = "http"
    /\ norm.primary.status = 200
    /\ norm.primary.body # InvalidBody
    /\ extract_from_responses_json(norm.primary.body).st = "ok"
\* The fallback answer is a 200 whose message text is JSON for a matching object.
FallbackYields ==
    /\ norm.fallback.kind = "http"
    /\ norm.fallback.status = 200
    /\ norm.fallback.body # InvalidBody
    /\ LET c == ChatContent(norm.fallback.body)
       IN /\ c.st = "ok"
          /\ c.v.k = "str"
          /\ c.v.txt.form = "json"
          /\ try_parse_obj(c.v.txt.of).st = "ok"

\* C15: the chat fallback call is made exactly once if and only if the
\* primary call did not yield a record (non-200, transport exception, no
\* matcher succeeded), never when it did; and when the fallback fails the
\* function raises instead of returning.
C15_FallbackIffPrimaryFails ==
    /\ norm.fb_calls \in {0, 1}
    /\ norm.pc = "fallback" => (~PrimaryYields /\ norm.fb_calls = 0)
    /\ Finished =>
          /\ norm.fb_calls = 1 <=> ~PrimaryYields
          /\ PrimaryYields => norm.pc = "returned"
          /\ norm.fb_calls = 1 => (norm.pc = "raised" <=> ~FallbackYields)

\* After a non-200 primary answer the fallback was called once; its text was
\* not JSON, and the function raised.
C15_Witness ==
    /\ norm.pc = "raised"
    /\ norm.fb_calls = 1
    /\ norm.primary = Http(500, InvalidBody)
    /\ norm.fallback = Http(200, ChatBody(Chars(StoryT)))

\* C16 (as stated): every shape matcher is attempted even when an earlier one
\* raises: a payload whose `content` list makes the second matcher raise (its
\* first segment is a string, or the segment's text is a number) and which
\* carries the triple under `output` is normalized to the triple by the
\* primary path.
C16_LaterMatchersTried ==
    (PrimaryExamined /\ PrimaryIs200(MixedShapes)) =>
        /\ norm.pc = "returned"
        /\ norm.fb_calls = 0
        /\ norm.result = Ok(TripleT)

\* ---- slugify
\* The steps of the claim, one by one.
RefKeeps(c) == c \in Letters \cup Digits \cup {" ", "-"}
RefTrim(s) ==
    LET inked == {i \in 1..Len(s) : s[i] # " "}
    IN IF inked = {} THEN <<>>
       ELSE SubSeq(s, CHOOSE i \in inked : \A j \in inked : i <= j,
                      CHOOSE i \in inked : \A j \in inked : i >= j)
RECURSIVE RefHyphens(_)
RefHyphens(s) ==
    IF s = <<>> THEN <<>>
    ELSE IF Head(s) # " " THEN <<Head(s)>> \o RefHyphens(Tail(s))
    ELSE IF Len(s) >= 2 /\ s[2] = " " THEN RefHyphens(Tail(s))
    ELSE <<"-">> \o RefHyphens(Tail(s))
RefFirst(s, n) == [i \in 1..(IF Len(s) < n THEN Len(s) ELSE n) |-> s[i]]
RefSlug(s) ==
    LET r == RefFirst(RefHyphens(LowerSeq(RefTrim(SelectSeq(s, RefKeeps)))), 60)
    IN IF r = <<>> THEN <<"s", "t", "o", "r", "y">> ELSE r
SlugAlphabet == {LowerCase[i] : i \in 1..Len(LowerCase)} \cup Digits \cup {"-"}

\* C17: for every title, slugify returns the result of: remove every
\* character outside letters, digits, space and hyphen; trim; lowercase;
\* replace each whitespace run by one hyphen; keep the first 60 characters;
\* "story" if that is empty.  The result is never empty, never longer than 60
\* characters and made of [a-z0-9-] only; "Midnight! Run?? (2024)" gives
\* "midnight-run-2024".
C17_SlugifyPipeline ==
    sl.pc = "returned" =>
        /\ sl.slug = RefSlug(sl.title)
        /\ Len(sl.slug) >= 1
        /\ Len(sl.slug) <= 60
        /\ \A i \in 1..Len(sl.slug) : sl.slug[i] \in SlugAlphabet
        /\ sl.title = MidnightTitle =>
              sl.slug = <<"m", "i", "d", "n", "i", "g", "h", "t", "-", "r", "u", "n", "-", "2", "0", "2", "4">>
        /\ SelectSeq(sl.title, RefKeeps) = <<>> => sl.slug = <<"s", "t", "o", "r", "y">>

C17_Witness ==
    /\ sl.pc = "returned"
    /\ sl.title = MidnightTitle
    /\ sl.slug = <<"m", "i", "d", "n", "i", "g", "h", "t", "-", "r", "u", "n", "-", "2", "0", "2", "4">>

Formats == {"png", "jpg", "webp", "svg"}
\* The answers that are failures other than a 401/403: no image was obtained.
Transient(o) == o.kind = "timeout" \/ (o.kind = "http" /\ o.status >= 500 /\ o.status < 600)
OtherClientError(o) == o.kind = "http" /\ o.status >= 400 /\ o.status < 500 /\ o.status \notin {401, 403}
FetchFails(o) == o.kind = "http" /\ o.status = 200 /\ o.b64 = <<>> /\ o.url
                    /\ (o.fetch.kind # "http" \/ o.fetch.status >= 400)
Failure(o) == Transient(o) \/ o.kind = "error" \/ OtherClientError(o) \/ FetchFails(o)
\* base64 of one byte: the two digits of its padded group
B64Encode(b) == <<b \div 4, (b % 4) * 16>>
\* The image a 200 answer carries, if it carries one.
HasImage(o) == o.kind = "http" /\ o.status = 200
                  /\ (o.b64 # <<>> \/ (o.url /\ o.fetch.kind = "http" /\ o.fetch.status = 200))
CarriesBytes(o, bytes) ==
    IF o.b64 # <<>> THEN \E b \in 0..255 : B64Encode(b) = o.b64 /\ bytes = [raw |-> <<b>>]
    ELSE bytes = [raw |-> o.fetch.content]

\* The answer generate_image returned on, and whether a content-type names a
\* format (in any letter case).
LastAnswer == gi.script[Len(gi.script)]
Names(ct, word) ==
    \E i \in 1..Len(ct) :
        /\ i + Len(word) - 1 <= Len(ct)
        /\ \A k \in 1..Len(word) : LowerChar(ct[i + k - 1]) = word[k]
NamesPng(ct) == Names(ct, <<"p", "n", "g">>)
NamesJpeg(ct) == Names(ct, <<"j", "p", "e", "g">>)
NamesJpg(ct) == Names(ct, <<"j", "p", "g">>)
NamesWebp(ct) == Names(ct, <<"w", "e", "b", "p">>)
NamesSvg(ct) == Names(ct, <<"s", "v", "g">>)
ReturnedImage == gi.pc = "returned" /\ gi.script # <<>> /\ HasImage(LastAnswer)
ReturnedFetched == ReturnedImage /\ LastAnswer.b64 = <<>>

\* C22 (as stated): the format generate_image returns is one of png, jpg,
\* webp, svg: inline base64 data gives png; a fetched URL gives png, jpg, webp
\* or svg as its content-type names png, jpeg, webp or svg, and png for any
\* other content-type; the placeholder gives svg.
C22_FormatByContentType ==
    /\ gi.pc = "returned" => gi.asset.ext \in Formats
    /\ (ReturnedImage /\ LastAnswer.b64 # <<>>) => gi.asset.ext = "png"
    /\ ReturnedFetched =>
          LET ct == LastAnswer.fetch.ct
          IN /\ NamesPng(ct) => gi.asset.ext = "png"
             /\ (NamesJpeg(ct) /\ ~NamesPng(ct)) => gi.asset.ext = "jpg"
             /\ (NamesWebp(ct) /\ ~NamesPng(ct) /\ ~NamesJpeg(ct)) => gi.asset.ext = "webp"
             /\ (NamesSvg(ct) /\ ~NamesPng(ct) /\ ~NamesJpeg(ct) /\ ~NamesWebp(ct))
                   => gi.asset.ext = "svg"
             /\ ~(NamesPng(ct) \/ NamesJpeg(ct) \/ NamesWebp(ct) \/ NamesSvg(ct))
                   => gi.asset.ext = "png"
    /\ (gi.pc = "returned" /\ gi.asset.bytes = make_svg(gi.prompt)) => gi.asset.ext = "svg"

\* C22 (amended): the format generate_image returns is one of png, jpg, webp,
\* svg: inline base64 data gives png; a fetched URL gives the first of png
\* (content-type contains "png"), jpg (contains "jpeg" or "jpg"), webp
\* (contains "webp"), svg (contains "svg") that applies, compared in lower
\* case, and png when none does; the placeholder gives svg.
C22_FormatByFirstMatch ==
    /\ gi.pc = "returned" => gi.asset.ext \in Formats
    /\ (ReturnedImage /\ LastAnswer.b64 # <<>>) => gi.asset.ext = "png"
    /\ ReturnedFetched =>
          LET ct == LastAnswer.fetch.ct
          IN gi.asset.ext =
               IF NamesPng(ct) THEN "png"
               ELSE IF NamesJpeg(ct) \/ NamesJpg(ct) THEN "jpg"
               ELSE IF NamesWebp(ct) THEN "webp"
               ELSE IF NamesSvg(ct) THEN "svg"
               ELSE "png"
    /\ (gi.pc = "returned" /\ gi.asset.bytes = make_svg(gi.prompt)) => gi.asset.ext = "svg"

\* A download answered with Content-Type image/jpg was returned as jpg.
C22_Witness ==
    /\ ReturnedFetched
    /\ LastAnswer.fetch.ct = <<"i", "m", "a", "g", "e", "/", "j", "p", "g">>
    /\ gi.asset.ext = "jpg"
    /\ gi.asset.bytes = [raw |-> <<255, 217>>]

\* C3: generate_image returns an asset (bytes and a format) and raises nothing,
\* whatever the API answers; when every attempt fails without a 401/403, the
\* asset is the svg placeholder.
C3_AlwaysAnAsset ==
    gi.pc = "returned" =>
        /\ ~gi.raised
        /\ gi.asset.ext \in Formats
        /\ gi.asset # NoAsset
        /\ (\A i \in 1..Len(gi.script) : Failure(gi.script[i]))
              => gi.asset = Placeholder(gi.prompt)

C3_Witness ==
    /\ gi.pc = "returned"
    /\ gi.script = <<Status(400), Hosted(FetchFailed("http", 404)), PostError>>
    /\ gi.asset = Placeholder(gi.prompt)

\* C7: a 401 or 403 answer makes generate_image return the svg placeholder of
\* the prompt at once: no further request, no sleep after it, no exception.
C7_PermissionDeniedDegrades ==
    \A i \in 1..gi.requests :
        gi.script[i].status \in {401, 403} =>
            /\ gi.requests = i
            /\ gi.pc = "returned"
            /\ gi.asset = Placeholder(gi.prompt)
            /\ ~gi.raised
            /\ Len(gi.sleeps) = i - 1

C7_Witness ==
    /\ gi.pc = "returned"
    /\ gi.requests = 2
    /\ gi.script = <<Status(503), Status(403)>>
    /\ gi.sleeps = <<2>>
    /\ gi.asset.ext = "svg"

\* C8: k attempts (k = 0, 1, 2) ending in a 5xx or a timeout, then a 200 with
\* image data: exactly k + 1 requests, and the asset is that answer's image.
\* That is: after k < 3 such failures and nothing else the function is still
\* in its loop, about to issue request k + 1; and once request k + 1 has been
\* answered with an image, it has returned that image.
C8_RetryThenSuccess ==
    \A k \in 0..(Attempts - 1) :
        /\ ( /\ gi.pc # "idle"
             /\ Len(gi.script) = k
             /\ \A i \in 1..k : Transient(gi.script[i]) )
           => (gi.pc = "loop" /\ gi.requests = k)
        /\ ( /\ Len(gi.script) > k
             /\ \A i \in 1..k : Transient(gi.script[i])
             /\ HasImage(gi.script[k + 1]) )
           => /\ gi.pc = "returned"
              /\ gi.requests = k + 1
              /\ CarriesBytes(gi.script[k + 1], gi.asset.bytes)
              /\ gi.asset.ext \in Formats
              /\ (gi.script[k + 1].b64 # <<>> => gi.asset.ext = "png")
              /\ ~gi.raised

C8_Witness ==
    /\ gi.pc = "returned"
    /\ gi.script = <<Status(503), Status(503), Inline(<<19, 16>>)>>
    /\ gi.requests = 3
    /\ gi.asset = [bytes |-> [raw |-> <<77>>], ext |-> "png"]

EntityAt(s, i) ==
    \E e \in {<<"&", "a", "m", "p", ";">>, <<"&", "l", "t", ";">>, <<"&", "g", "t", ";">>} :
        /\ i + Len(e) - 1 <= Len(s)
        /\ SubSeq(s, i, i + Len(e) - 1) = e

\* C25 (as stated): for every prompt, also one longer than the 180-character
\* limit, the excerpt make_svg embeds in the placeholder has no raw '<' or
\* '>', every '&' in it starts a complete entity (&amp;, &lt; or &gt;), and
\* it is at most 181 characters long.
C25_ExcerptWellFormed ==
    sv.pc = "returned" =>
        LET s == sv.svg
        IN /\ Len(s) <= 181
           /\ \A i \in 1..Len(s) :
                 /\ s[i] \notin {"<", ">"}
                 /\ s[i] = "&" => EntityAt(s, i)

\* C9 (as stated): after a 4xx answer other than 401/403 no further
\* generation request is issued.
C9_NoRetryOnClientError ==
    \A i \in 1..gi.requests :
        OtherClientError(gi.script[i]) => gi.requests = i

\* C10: generate_image terminates, having issued at most 3 requests.
C10_Terminates ==
    /\ [](gi.requests <= 3)
    /\ (gi.pc = "loop") ~> (gi.pc = "returned")

C10_Witness == gi.pc = "returned" /\ gi.requests = 3 /\ Len(gi.sleeps) = 3

====
